---- MODULE Spec2Model ----
(***************************************************************************)
(* Model of src/src/data_generation/generator.py: the clickstream event    *)
(* generator (ClickstreamDataGenerator) and the benchmark orchestrator     *)
(* (generate_benchmark_data).                                              *)
(*                                                                         *)
(* Conventions.                                                            *)
(*  - A Python Optional is a sequence: None is <<>>, a value x is <<x>>.   *)
(*  - A datetime is a number of seconds since 2024-01-01T00:00:00.         *)
(*  - The process has three sources of randomness, each a piece of state   *)
(*    outside any generator object: the module-level state of `random`,    *)
(*    the shared state Faker.seed() sets, and the operating system's       *)
(*    entropy that uuid.uuid4() reads.                                     *)
(*  - Record counts are scaled down (see SIZE_RECORD_COUNTS).              *)
(***************************************************************************)
EXTENDS Integers, Sequences, FiniteSets, TLC

(***************************************************************************)
(* Bounds of the model.                                                    *)
(***************************************************************************)
\* number of states of each pseudo-random source (its period)
RandMod == 3
\* number of distinct entropy streams a fresh process may start from
NStreams == 2
\* largest incremental_days passed to generate_benchmark_data
MaxIncrementalDays == 2
\* largest number of direct calls on generator objects in one process
MaxApiCalls == 4

None == <<>>
Some(x) == <<x>>

Max(a, b) == IF a >= b THEN a ELSE b

(***************************************************************************)
(* Class constants.                                                        *)
(***************************************************************************)
DataSize == {"small", "medium", "large"}

\* The source maps small/medium/large to 100_000 / 10_000_000 / 100_000_000.
\* The model keeps the table's shape (three positive, increasing counts) at
\* a scale a batch can be enumerated at.
SIZE_RECORD_COUNTS == [small |-> 1, medium |-> 2, large |-> 3]

PAGES == <<"/", "/home", "/products", "/about", "/contact", "/login",
           "/search", "/cart", "/checkout">>
COUNTRIES == <<"US", "CA", "GB", "DE", "FR", "IT", "ES", "AU", "JP">>
DEVICES == <<"desktop", "mobile", "tablet">>

\* default of records_per_day (1000 in the source), scaled like the tiers
DEFAULT_RECORDS_PER_DAY == 2
\* default of days in generate_bulk_data
DEFAULT_DAYS == 30
SECONDS_PER_DAY == 86400

(***************************************************************************)
(* datetime arithmetic.                                                    *)
(***************************************************************************)
timedelta_days(d) == d * SECONDS_PER_DAY

\* datetime(2024, m, d) for the two anchor dates the orchestrator uses
DaysBeforeMonth == <<0, 31, 60, 91, 121, 152, 182, 213, 244, 274, 305, 335>>
datetime_2024(m, d) == (DaysBeforeMonth[m] + (d - 1)) * SECONDS_PER_DAY

\* faulty variant: the time of day is kept
replace_midnight_Kept(date) == date

\* date.replace(hour=0, minute=0, second=0, microsecond=0)
replace_midnight(date) == date - (date % SECONDS_PER_DAY)

\* date.strftime("%Y-%m-%d"), as <<year, month, day>>
strftime_ymd(date) ==
    LET dayno == date \div SECONDS_PER_DAY
        m == CHOOSE k \in 1..12 :
                 /\ DaysBeforeMonth[k] <= dayno
                 /\ (k = 12 \/ dayno < DaysBeforeMonth[k + 1])
    IN  <<2024, m, dayno - DaysBeforeMonth[m] + 1>>

(***************************************************************************)
(* The randomness of a process: a record                                   *)
(*   [random |-> state of the module-level `random`,                       *)
(*    faker  |-> state shared by all Faker instances,                      *)
(*    urandom |-> [stream, n]: the entropy stream and how much was read,   *)
(*    draws  |-> how many values were drawn from `random` so far]          *)
(***************************************************************************)
\* one step of a pseudo-random source
rand_next(s) == (s + 1) % RandMod

\* random.seed(seed) / Faker.seed(seed)
seed_state(seed) == seed % RandMod

\* random.randint(a, b) for a <= b: a value of [a, b], both ends included
randint(s, a, b) == a + ((b - a) * s) \div (RandMod - 1)

\* random.choice(seq)
choice(s, seq) == seq[1 + (s % Len(seq))]

\* uuid.uuid4(): read from the OS entropy, never from `random`
uuid4(u) == <<"uuid", u.stream, u.n>>

\* faker.ipv4(): drawn from the Faker state
ipv4(s) == <<"ip", s>>


(***************************************************************************)
(* ClickstreamDataGenerator.                                               *)
(***************************************************************************)
\* __init__(self, size, seed): the object holds the tier and its count; a
\* seed, when given, goes to Faker.seed and random.seed.
\* Result: [self |-> the object, w |-> the randomness afterwards]
Seeding(w, seed) ==
    IF seed # None
    THEN [w EXCEPT !.faker = seed_state(seed[1]), !.random = seed_state(seed[1])]
    ELSE w

__init__(w, size, seed) ==
    [self |-> [size |-> size, record_count |-> SIZE_RECORD_COUNTS[size]],
     w    |-> Seeding(w, seed)]

\* _generate_event(self, timestamp): the dict literal evaluates its values
\* in order: three uuid4(), three random.choice(), one faker.ipv4().
\* Result: [event |-> the dict, w |-> the randomness afterwards]
_generate_event(w, timestamp) ==
    LET u0 == w.urandom
        u1 == [u0 EXCEPT !.n = u0.n + 1]
        u2 == [u0 EXCEPT !.n = u0.n + 2]
        r0 == w.random
        r1 == rand_next(r0)
        r2 == rand_next(r1)
    IN  [event |-> [event_id   |-> uuid4(u0),
                    user_id    |-> uuid4(u1),
                    session_id |-> uuid4(u2),
                    timestamp  |-> timestamp,
                    page_url   |-> choice(r0, PAGES),
                    country    |-> choice(r1, COUNTRIES),
                    device     |-> choice(r2, DEVICES),
                    ip_address |-> ipv4(w.faker)],
         w |-> [random  |-> rand_next(r2),
                faker   |-> rand_next(w.faker),
                urandom |-> [u0 EXCEPT !.n = u0.n + 3],
                draws   |-> w.draws + 3]]

\* One pass of a generation loop: random.randint(0, hi), then
\* start + timedelta(seconds=random_seconds), then _generate_event.
\* random.randint raises ValueError on an empty range (hi < 0).
\* Result: [events, w, error]
RECURSIVE generate_loop(_, _, _, _, _)
generate_loop(w, start, hi, count, events) ==
    IF count <= 0
    THEN [events |-> events, w |-> w, error |-> None]
    ELSE IF hi < 0
    THEN [events |-> <<>>, w |-> w, error |-> Some("ValueError")]
    ELSE LET random_seconds == randint(w.random, 0, hi)
             w1 == [w EXCEPT !.random = rand_next(w.random), !.draws = w.draws + 1]
             timestamp == start + random_seconds
             ge == _generate_event(w1, timestamp)
         IN  generate_loop(ge.w, start, hi, count - 1, Append(events, ge.event))

\* faulty variant: the loop runs one time short
generate_bulk_data_OneShort(self, w, start_date, days) ==
    generate_loop(w, start_date, (start_date + timedelta_days(days)) - start_date,
                  self.record_count - 1, <<>>)

\* generate_bulk_data(self, start_date, days=30)
generate_bulk_data(self, w, start_date, days) ==
    LET end_date == start_date + timedelta_days(days)
    IN  generate_loop(w, start_date, end_date - start_date, self.record_count, <<>>)

\* generate_incremental_data(self, date, records_per_day=1000)
generate_incremental_data(self, w, date, records_per_day) ==
    LET start_of_day == replace_midnight(date)
    IN  generate_loop(w, start_of_day, SECONDS_PER_DAY, records_per_day, <<>>)

(***************************************************************************)
(* Filesystem and serialisation (external collaborators).                  *)
(***************************************************************************)
\* Path(output_dir) / name
PathJoin(dir, name) == Append(dir, name)

\* faulty variant: an existing file is kept instead of overwritten
write_csv_KeepFirst(files, path, rows) ==
    files @@ (path :> [encoding |-> "csv", rows |-> rows])

\* df.write_csv(path) / df.write_parquet(path): the file's content is the
\* table in the chosen encoding
write_csv(files, path, rows) == (path :> [encoding |-> "csv", rows |-> rows]) @@ files
write_parquet(files, path, rows) == (path :> [encoding |-> "parquet", rows |-> rows]) @@ files

\* path.stat().st_size: grows with the rows; a csv file has a header line
st_size(files, path) ==
    IF files[path].encoding = "csv"
    THEN 1 + Len(files[path].rows)
    ELSE 2 + Len(files[path].rows)

\* st_size / (1024 * 1024), kept as the fraction <<numerator, denominator>>
size_mb(files, path) == <<st_size(files, path), 1024 * 1024>>

\* path.mkdir(parents=True, exist_ok=True): the directory and its parents
RECURSIVE mkdir_parents(_, _)
mkdir_parents(dirs, path) ==
    IF Len(path) = 0 THEN dirs
    ELSE mkdir_parents(dirs \cup {path}, SubSeq(path, 1, Len(path) - 1))

(***************************************************************************)
(* State.                                                                  *)
(***************************************************************************)
VARIABLES
    world,          \* the randomness of the running process
    fs,             \* [dirs, files]: the filesystem under the output directory
    gens,           \* generator objects a caller holds: 1..2 -> Optional object
    own,            \* per held object: the randomness it would have if its
                    \* seeded state were its own (None when built without seed)
    ret,            \* outcome of the last direct call on a held object
    api_calls,      \* number of direct calls made
    pc,             \* position in generate_benchmark_data
    args,           \* its arguments
    formats,        \* local: formats after defaulting
    generator,      \* local: Optional generator
    bulk_events,    \* local
    daily_events,   \* local
    results,        \* local: the manifest under construction
    format_results, \* local
    fi,             \* local: index of format_type in formats
    day,            \* local: day of the incremental loop
    error,          \* Optional exception that left the call
    retval,         \* Optional returned manifest
    trace,          \* side effects of the call so far, in order
    prev            \* Optional outcome of an earlier, identical run

vars == <<world, fs, gens, own, ret, api_calls, pc, args, formats, generator,
          bulk_events, daily_events, results, format_results, fi, day, error,
          retval, trace, prev>>

apiVars == <<gens, own, ret, api_calls>>
frameVars == <<pc, args, formats, generator, bulk_events, daily_events, results,
               format_results, fi, day, error, retval, trace>>

\* A process that has not seeded anything starts from whatever the
\* interpreter and the operating system provide (for the Faker state two
\* representative values, the first and the last, are explored).
FreshWorld ==
    { [random |-> r, faker |-> f, urandom |-> [stream |-> u, n |-> 0], draws |-> 0] :
        r \in 0..(RandMod - 1), f \in {0, RandMod - 1}, u \in 1..NStreams }

EmptyFs == [dirs |-> {}, files |-> <<>>]

NoArgs == [size |-> "", output_dir |-> <<>>, formats |-> None, seed |-> None,
           incremental_days |-> 0]
NoResults == [size |-> "", bulk_record_count |-> 0, incremental_days |-> 0,
              files |-> <<>>]
NoFormatResults == [bulk |-> <<>>, incremental |-> <<>>]
NoRet == [op |-> "", gen |-> 0, a |-> 0, b |-> 0, events |-> <<>>, error |-> None,
          isolated |-> <<>>]

Init ==
    /\ world \in FreshWorld
    /\ fs = EmptyFs
    /\ gens = [i \in 1..2 |-> None]
    /\ own = [i \in 1..2 |-> None]
    /\ ret = NoRet
    /\ api_calls = 0
    /\ pc = "idle"
    /\ args = NoArgs
    /\ formats = <<>>
    /\ generator = None
    /\ bulk_events = <<>>
    /\ daily_events = <<>>
    /\ results = NoResults
    /\ format_results = NoFormatResults
    /\ fi = 0
    /\ day = 0
    /\ error = None
    /\ retval = None
    /\ trace = <<>>
    /\ prev = None

(***************************************************************************)
(* Direct calls on generator objects held by a caller.  A process explored *)
(* here either makes up to MaxApiCalls direct calls on two generator       *)
(* objects, or runs generate_benchmark_data (and, when seeded, runs it a   *)
(* second time in a fresh process).                                        *)
(***************************************************************************)
SeedInputs == {None, Some(1), Some(2)}
StartDateInputs == {datetime_2024(1, 1), datetime_2024(2, 1) + 3600}
DaysInputs == {-1, 0, DEFAULT_DAYS}
RecordsPerDayInputs == {-1, 0, DEFAULT_RECORDS_PER_DAY}

ApiEnabled == pc = "idle" /\ api_calls < MaxApiCalls

\* the part of the randomness a seed determines
Seeded(w) == [random |-> w.random, faker |-> w.faker]
\* w with its seed-determined part replaced by o
WithSeeded(w, o) == [w EXCEPT !.random = o.random, !.faker = o.faker]

\* g = ClickstreamDataGenerator(size, seed)
Construct(i, size, seed) ==
    /\ ApiEnabled
    /\ LET c == __init__(world, size, seed)
       IN  /\ gens' = [gens EXCEPT ![i] = Some(c.self)]
           /\ world' = c.w
           /\ own' = [own EXCEPT ![i] = IF seed = None THEN None ELSE Some(Seeded(c.w))]
    /\ ret' = NoRet
    /\ api_calls' = api_calls + 1
    /\ UNCHANGED <<fs, prev>>
    /\ UNCHANGED frameVars

\* the outcome of a direct call, with what the same call yields from the
\* object's own randomness
Outcome(i, op, a, b, r, iso) ==
    /\ world' = r.w
    /\ ret' = [op |-> op, gen |-> i, a |-> a, b |-> b, events |-> r.events,
               error |-> r.error, isolated |-> iso.events]
    /\ own' = [own EXCEPT ![i] = IF own[i] = None THEN None ELSE Some(Seeded(iso.w))]
    /\ api_calls' = api_calls + 1
    /\ UNCHANGED <<gens, fs, prev>>
    /\ UNCHANGED frameVars

OwnWorld(i) == IF own[i] = None THEN world ELSE WithSeeded(world, own[i][1])

\* g.generate_bulk_data(start_date, days)
CallBulk(i, start_date, days) ==
    /\ ApiEnabled
    /\ gens[i] # None
    /\ Outcome(i, "generate_bulk_data", start_date, days,
               generate_bulk_data(gens[i][1], world, start_date, days),
               generate_bulk_data(gens[i][1], OwnWorld(i), start_date, days))

\* g.generate_incremental_data(date, records_per_day)
CallIncremental(i, date, records_per_day) ==
    /\ ApiEnabled
    /\ gens[i] # None
    /\ Outcome(i, "generate_incremental_data", date, records_per_day,
               generate_incremental_data(gens[i][1], world, date, records_per_day),
               generate_incremental_data(gens[i][1], OwnWorld(i), date, records_per_day))

(***************************************************************************)
(* generate_benchmark_data(size, output_dir, formats, seed,                *)
(* incremental_days), one action per step between two side effects.        *)
(***************************************************************************)
SizeInputs == DataSize \cup {"tiny"}
FormatsInputs == {None, Some(<<>>), Some(<<"csv">>), Some(<<"parquet", "csv">>),
                  Some(<<"csv", "csv">>), Some(<<"csv", "xml">>)}
IncrementalDaysInputs == -1..MaxIncrementalDays
OutputDir == <<"out">>

ArgsInputs ==
    [size : SizeInputs, output_dir : {OutputDir}, formats : FormatsInputs,
     seed : SeedInputs, incremental_days : IncrementalDaysInputs]

supported_formats == {"csv", "parquet"}
Range(seq) == {seq[k] : k \in 1..Len(seq)}

\* one side effect, as it is logged in trace
Effect(op, path, rows, tag) == [op |-> op, path |-> path, rows |-> rows, tag |-> tag]

Raise(e) ==
    /\ pc' = "raised"
    /\ error' = Some(e)

\* faulty variant: the formats are not validated
Validate_SizeOnly(a) ==
    /\ args' = a
    /\ formats' = IF a.formats = None THEN <<"csv", "parquet">> ELSE a.formats[1]
    /\ IF a.size \notin DataSize
       THEN Raise("ValueError: Invalid size")
       ELSE pc' = "mkdir_bulk" /\ error' = None

\* lines 185-201: default the formats, validate size and formats
Validate(a) ==
    LET f == IF a.formats = None THEN <<"csv", "parquet">> ELSE a.formats[1]
        invalid_formats == Range(f) \ supported_formats
    IN  /\ args' = a
        /\ formats' = f
        /\ IF a.size \notin DataSize
           THEN Raise("ValueError: Invalid size")
           ELSE IF invalid_formats # {}
           THEN Raise("ValueError: Unsupported formats")
           ELSE pc' = "mkdir_bulk" /\ error' = None

Call ==
    /\ pc = "idle"
    /\ api_calls = 0
    /\ \E a \in ArgsInputs : Validate(a)
    /\ UNCHANGED <<world, fs, prev, generator, bulk_events, daily_events, results,
                   format_results, fi, day, retval, trace>>
    /\ UNCHANGED apiVars

output_path == args.output_dir
bulk_dir == PathJoin(output_path, "bulk")
incremental_dir == PathJoin(output_path, "incremental")

\* line 208: bulk_dir.mkdir(parents=True, exist_ok=True)
MkdirBulk ==
    /\ pc = "mkdir_bulk"
    /\ \/ /\ fs' = [fs EXCEPT !.dirs = mkdir_parents(fs.dirs, bulk_dir)]
          /\ trace' = Append(trace, Effect("mkdir", bulk_dir, <<>>, <<>>))
          /\ pc' = "mkdir_incremental"
          /\ UNCHANGED error
       \/ /\ Raise("OSError")
          /\ UNCHANGED <<fs, trace>>
    /\ UNCHANGED <<world, prev, args, formats, generator, bulk_events, daily_events,
                   results, format_results, fi, day, retval>>
    /\ UNCHANGED apiVars

\* line 209: incremental_dir.mkdir(parents=True, exist_ok=True)
MkdirIncremental ==
    /\ pc = "mkdir_incremental"
    /\ \/ /\ fs' = [fs EXCEPT !.dirs = mkdir_parents(fs.dirs, incremental_dir)]
          /\ trace' = Append(trace, Effect("mkdir", incremental_dir, <<>>, <<>>))
          /\ pc' = "init_generator"
          /\ UNCHANGED error
       \/ /\ Raise("OSError")
          /\ UNCHANGED <<fs, trace>>
    /\ UNCHANGED <<world, prev, args, formats, generator, bulk_events, daily_events,
                   results, format_results, fi, day, retval>>
    /\ UNCHANGED apiVars

\* line 212: generator = ClickstreamDataGenerator(data_size, seed=seed)
InitGenerator ==
    /\ pc = "init_generator"
    /\ LET c == __init__(world, args.size, args.seed)
       IN  /\ generator' = Some(c.self)
           /\ world' = c.w
    /\ trace' = Append(trace, Effect("construct", <<>>, <<>>, args.seed))
    /\ pc' = "generate_bulk"
    /\ UNCHANGED <<fs, prev, args, formats, bulk_events, daily_events, results,
                   format_results, fi, day, error, retval>>
    /\ UNCHANGED apiVars

\* faulty variant: the incremental window starts where the bulk window ends
incremental_start_date_Jan31 == datetime_2024(1, 31)

bulk_start_date == datetime_2024(1, 1)
incremental_start_date == datetime_2024(2, 1)

\* lines 215-226: the bulk batch, then the manifest's head
GenerateBulk ==
    /\ pc = "generate_bulk"
    /\ LET r == generate_bulk_data(generator[1], world, bulk_start_date, DEFAULT_DAYS)
       IN  /\ world' = r.w
           /\ bulk_events' = r.events
           /\ trace' = Append(trace, Effect("draw_bulk", <<>>, r.events, <<world.draws>>))
           /\ results' = [size |-> args.size,
                          bulk_record_count |-> Len(r.events),
                          incremental_days |-> args.incremental_days,
                          files |-> <<>>]
    /\ fi' = 1
    /\ pc' = "format_loop"
    /\ UNCHANGED <<fs, prev, args, formats, generator, daily_events, format_results,
                   day, error, retval>>
    /\ UNCHANGED apiVars

format_type == formats[fi]
bulk_file_path == PathJoin(bulk_dir, <<"bulk_data", args.size, format_type>>)

\* the write the format selects (lines 236-239, 259-262)
write_format(files, fmt, path, rows) ==
    IF fmt = "csv" THEN write_csv(files, path, rows)
    ELSE write_parquet(files, path, rows)

\* faulty variant: the bulk batch is generated again for each format
WriteBulk_Regenerated ==
    /\ pc = "format_loop"
    /\ fi <= Len(formats)
    /\ LET r == generate_bulk_data(generator[1], world, bulk_start_date, DEFAULT_DAYS)
           files == write_format(fs.files, format_type, bulk_file_path, r.events)
       IN  /\ world' = r.w
           /\ bulk_events' = r.events
           /\ fs' = [fs EXCEPT !.files = files]
           /\ trace' = trace \o <<Effect("draw_bulk", <<>>, r.events, <<world.draws>>),
                                  Effect("write", bulk_file_path, r.events, <<fi>>)>>
           /\ format_results' =
                  [bulk |-> [path |-> bulk_file_path,
                             records |-> Len(r.events),
                             size_mb |-> size_mb(files, bulk_file_path)],
                   incremental |-> <<>>]
    /\ day' = 0
    /\ pc' = "day_loop"
    /\ UNCHANGED <<prev, args, formats, generator, daily_events, results, fi, error,
                   retval>>
    /\ UNCHANGED apiVars

\* lines 228-245: next format: write the bulk batch, record its file
WriteBulk ==
    /\ pc = "format_loop"
    /\ fi <= Len(formats)
    /\ \/ LET files == write_format(fs.files, format_type, bulk_file_path, bulk_events)
          IN  /\ fs' = [fs EXCEPT !.files = files]
              /\ trace' = Append(trace, Effect("write", bulk_file_path, bulk_events, <<fi>>))
              /\ format_results' =
                     [bulk |-> [path |-> bulk_file_path,
                                records |-> Len(bulk_events),
                                size_mb |-> size_mb(files, bulk_file_path)],
                      incremental |-> <<>>]
              /\ day' = 0
              /\ pc' = "day_loop"
              /\ UNCHANGED error
       \/ /\ Raise("OSError")
          /\ UNCHANGED <<fs, trace, format_results, day>>
    /\ UNCHANGED <<world, prev, args, formats, generator, bulk_events, daily_events,
                   results, fi, retval>>
    /\ UNCHANGED apiVars

\* faulty variant: the day offset is left out
current_date_NoOffset == incremental_start_date

current_date == incremental_start_date + timedelta_days(day)
date_str == strftime_ymd(current_date)
incremental_file_path ==
    PathJoin(incremental_dir, <<"incremental", date_str, args.size, format_type>>)

\* lines 248-253: next day: a fresh daily batch
GenerateIncremental ==
    /\ pc = "day_loop"
    /\ day < args.incremental_days
    /\ LET r == generate_incremental_data(generator[1], world, current_date,
                                          DEFAULT_RECORDS_PER_DAY)
       IN  /\ world' = r.w
           /\ daily_events' = r.events
           /\ trace' = Append(trace, Effect("draw_incremental", <<>>, r.events,
                                            <<world.draws, fi, day>>))
    /\ pc' = "write_incremental"
    /\ UNCHANGED <<fs, prev, args, formats, generator, bulk_events, results,
                   format_results, fi, day, error, retval>>
    /\ UNCHANGED apiVars

\* faulty variant: a failed daily write is swallowed and the loop goes on
WriteIncremental_Swallowed ==
    /\ pc = "write_incremental"
    /\ \/ LET files == write_format(fs.files, format_type, incremental_file_path,
                                    daily_events)
          IN  /\ fs' = [fs EXCEPT !.files = files]
              /\ trace' = Append(trace, Effect("write", incremental_file_path,
                                               daily_events, <<fi, day>>))
              /\ format_results' =
                     [format_results EXCEPT !.incremental =
                         Append(@, [date |-> date_str,
                                    path |-> incremental_file_path,
                                    records |-> Len(daily_events),
                                    size_mb |-> size_mb(files, incremental_file_path)])]
       \/ UNCHANGED <<fs, trace, format_results>>
    /\ day' = day + 1
    /\ pc' = "day_loop"
    /\ UNCHANGED <<world, prev, args, formats, generator, bulk_events, daily_events,
                   results, fi, retval, error>>
    /\ UNCHANGED apiVars

\* lines 255-271: write the daily batch, record its file
WriteIncremental ==
    /\ pc = "write_incremental"
    /\ \/ LET files == write_format(fs.files, format_type, incremental_file_path,
                                    daily_events)
          IN  /\ fs' = [fs EXCEPT !.files = files]
              /\ trace' = Append(trace, Effect("write", incremental_file_path,
                                               daily_events, <<fi, day>>))
              /\ format_results' =
                     [format_results EXCEPT !.incremental =
                         Append(@, [date |-> date_str,
                                    path |-> incremental_file_path,
                                    records |-> Len(daily_events),
                                    size_mb |-> size_mb(files, incremental_file_path)])]
              /\ day' = day + 1
              /\ pc' = "day_loop"
              /\ UNCHANGED error
       \/ /\ Raise("OSError")
          /\ UNCHANGED <<fs, trace, format_results, day>>
    /\ UNCHANGED <<world, prev, args, formats, generator, bulk_events, daily_events,
                   results, fi, retval>>
    /\ UNCHANGED apiVars

\* line 273: results["files"][format_type] = format_results
EndFormat ==
    /\ pc = "day_loop"
    /\ day >= args.incremental_days
    /\ results' = [results EXCEPT !.files = (format_type :> format_results) @@ @]
    /\ fi' = fi + 1
    /\ pc' = "format_loop"
    /\ UNCHANGED <<world, fs, prev, args, formats, generator, bulk_events,
                   daily_events, format_results, day, error, retval, trace>>
    /\ UNCHANGED apiVars

\* line 275: return results
Return ==
    /\ pc = "format_loop"
    /\ fi > Len(formats)
    /\ retval' = Some(results)
    /\ pc' = "done"
    /\ UNCHANGED <<world, fs, prev, args, formats, generator, bulk_events,
                   daily_events, results, format_results, fi, day, error, trace>>
    /\ UNCHANGED apiVars

\* A seeded call once more, with identical arguments, in a fresh process
\* and an empty output directory; the first run's outcome is kept in prev.
Rerun ==
    /\ pc = "done"
    /\ prev = None
    /\ args.seed # None
    /\ prev' = Some([args |-> args, retval |-> retval[1], files |-> fs.files])
    /\ world' \in FreshWorld
    /\ fs' = EmptyFs
    /\ Validate(args)
    /\ generator' = None
    /\ bulk_events' = <<>>
    /\ daily_events' = <<>>
    /\ results' = NoResults
    /\ format_results' = NoFormatResults
    /\ fi' = 0
    /\ day' = 0
    /\ retval' = None
    /\ trace' = <<>>
    /\ UNCHANGED apiVars

Next ==
    \/ \E i \in 1..2, size \in DataSize, seed \in SeedInputs : Construct(i, size, seed)
    \/ \E i \in 1..2, s \in StartDateInputs, d \in DaysInputs : CallBulk(i, s, d)
    \/ \E i \in 1..2, d \in StartDateInputs, n \in RecordsPerDayInputs :
           CallIncremental(i, d, n)
    \/ Call
    \/ MkdirBulk
    \/ MkdirIncremental
    \/ InitGenerator
    \/ GenerateBulk
    \/ WriteBulk
    \/ GenerateIncremental
    \/ WriteIncremental
    \/ EndFormat
    \/ Return
    \/ Rerun

Spec == Init /\ [][Next]_vars

(***************************************************************************)
(* Properties.                                                             *)
(***************************************************************************)
IsWrite(e) == e.op = "write"
IsBulkWrite(e) == e.op = "write" /\ Len(e.tag) = 1
IsIncrementalWrite(e) == e.op = "write" /\ Len(e.tag) = 2
IsDraw(e) == e.op \in {"draw_bulk", "draw_incremental"}
WrittenPaths == {trace[i].path : i \in {j \in 1..Len(trace) : IsWrite(trace[j])}}
Timestamps(events) == {events[k].timestamp : k \in 1..Len(events)}

\* a request generate_benchmark_data accepts
ValidRequest(a) ==
    /\ a.size \in {"small", "medium", "large"}
    /\ a.formats = None \/ Range(a.formats[1]) \subseteq {"csv", "parquet"}

\* C1: a call whose size or formats are invalid fails with the
\* invalid-configuration error, and when it has failed no directory exists,
\* no file was written, no generator was constructed or seeded and nothing
\* was drawn from any random source.
C1_ValidationBeforeEffects ==
    (pc # "idle" /\ ~ValidRequest(args)) =>
        /\ pc = "raised"
        /\ error \in {Some("ValueError: Invalid size"),
                      Some("ValueError: Unsupported formats")}
        /\ retval = None
        /\ fs = EmptyFs
        /\ trace = <<>>
        /\ generator = None
        /\ world.draws = 0
        /\ world.urandom.n = 0

\* an invalid formats list behind a valid size was rejected
C1_Witness ==
    /\ pc = "raised"
    /\ args.size \in DataSize
    /\ args.formats = Some(<<"csv", "xml">>)
    /\ error = Some("ValueError: Unsupported formats")

\* C2: two independent runs with the same seed and the same arguments leave
\* identical files and return identical manifests.
C2_SeededRunsIdentical ==
    (pc = "done" /\ prev # None) =>
        /\ fs.files = prev[1].files
        /\ retval[1] = prev[1].retval

\* write number (k, d) of the run happened: the bulk write of format k when
\* d < 0, else the write of day d of format k
Written(k, d) ==
    \E i \in 1..Len(trace) :
        /\ IsWrite(trace[i])
        /\ trace[i].tag = (IF d < 0 THEN <<k>> ELSE <<k, d>>)

\* C3: a failed directory creation or file write leaves the call with the
\* error and without a manifest, and nothing more is generated or written
\* afterwards; a manifest is returned only when every requested format/day
\* combination was written.
C3_NoPartialManifest ==
    /\ (error # None) <=> (pc = "raised")
    /\ pc = "raised" => (retval = None /\ ~ENABLED Next)
    /\ retval # None =>
           /\ pc = "done"
           /\ \A k \in 1..Len(formats) :
                  \A d \in -1..(args.incremental_days - 1) : Written(k, d)

\* a write failed after an earlier file had been written
C3_Witness ==
    /\ pc = "raised"
    /\ error = Some("OSError")
    /\ WrittenPaths # {}
    /\ retval = None

DrawLog == SelectSeq(trace, IsDraw)
BulkWrites == SelectSeq(trace, IsBulkWrite)
\* values one event takes from `random`: the offset and three choices
DrawsPerEvent == 1 + 3

\* C4: one bulk batch is generated, before any write, and written unchanged
\* once per requested format; an incremental batch is generated per
\* (format, day) pair; the random stream is consumed by the bulk batch
\* first, then format by format in the order given, day by day.
C4_GenerationOrder ==
    pc \notin {"idle", "raised"} =>
        LET dl == DrawLog
            D == Max(args.incremental_days, 0)
        IN  /\ \A j \in 1..Len(dl) :
                   IF j = 1
                   THEN dl[j].op = "draw_bulk" /\ dl[j].tag = <<0>>
                   ELSE /\ dl[j].op = "draw_incremental"
                        /\ D > 0
                        /\ dl[j].tag =
                              <<DrawsPerEvent * Len(dl[1].rows)
                                  + DrawsPerEvent * DEFAULT_RECORDS_PER_DAY * (j - 2),
                                1 + ((j - 2) \div D),
                                (j - 2) % D>>
            /\ \A i \in 1..Len(trace) :
                   /\ IsWrite(trace[i]) =>
                          \E h \in 1..(i - 1) : trace[h].op = "draw_bulk"
                   /\ IsBulkWrite(trace[i]) =>
                          (trace[i].rows = dl[1].rows /\ trace[i].rows = bulk_events)
                   /\ IsIncrementalWrite(trace[i]) =>
                          /\ trace[i - 1].op = "draw_incremental"
                          /\ trace[i - 1].rows = trace[i].rows
                          /\ <<trace[i - 1].tag[2], trace[i - 1].tag[3]>> = trace[i].tag
            /\ \A k \in 1..Len(BulkWrites) : BulkWrites[k].tag = <<k>>
            /\ pc = "done" =>
                   /\ Len(dl) = 1 + Len(formats) * D
                   /\ Len(BulkWrites) = Len(formats)

\* a run of two formats and two days returned
C4_Witness ==
    /\ pc = "done"
    /\ Len(formats) = 2
    /\ args.incremental_days = 2

\* 2024-02-01 + k days, within February
ExpectedDate(k) == <<2024, 2, 1 + k>>
ExpectedBulkPath(f) == <<"out", "bulk", <<"bulk_data", args.size, f>>>>
ExpectedIncrementalPath(f, k) ==
    <<"out", "incremental", <<"incremental", ExpectedDate(k), args.size, f>>>>
ManifestPaths(m) ==
    UNION { {m.files[f].bulk.path}
            \cup {m.files[f].incremental[k].path : k \in 1..Len(m.files[f].incremental)} :
            f \in DOMAIN m.files }

\* the manifest of a returned call, with n incremental records per format
ManifestShape(n) ==
    pc = "done" =>
        LET m == retval[1]
        IN  /\ m.size = args.size
            /\ m.bulk_record_count = Len(bulk_events)
            /\ m.incremental_days = args.incremental_days
            /\ DOMAIN m.files = Range(formats)
            /\ \A f \in DOMAIN m.files :
                   /\ m.files[f].bulk.path = ExpectedBulkPath(f)
                   /\ Len(m.files[f].incremental) = n
                   /\ \A k \in 1..Len(m.files[f].incremental) :
                          /\ m.files[f].incremental[k].date = ExpectedDate(k - 1)
                          /\ m.files[f].incremental[k].path =
                                 ExpectedIncrementalPath(f, k - 1)
            /\ WrittenPaths = ManifestPaths(m)
            /\ DOMAIN fs.files = ManifestPaths(m)

\* C5 (as stated): on return the manifest holds the size, the bulk count,
\* incremental_days, and per requested format the bulk path and exactly
\* incremental_days incremental records, dated 2024-02-01 + k in order with
\* the matching paths; the files written are exactly the paths it lists.
C5_ManifestAsStated == ManifestShape(args.incremental_days)

\* C5 (amended): the same, with exactly max(incremental_days, 0)
\* incremental records per requested format.
C5_Manifest == ManifestShape(Max(args.incremental_days, 0))

\* a run of two formats and two days returned its manifest
C5_Witness ==
    /\ pc = "done"
    /\ Len(formats) = 2
    /\ args.incremental_days = 2
    /\ Len(retval[1].files["csv"].incremental) = 2

\* batch lengths, with n events expected of the last direct call of
\* generate_incremental_data
BatchLengths(n) ==
    /\ (ret.op = "generate_bulk_data" /\ ret.error = None) =>
           /\ Len(ret.events) = SIZE_RECORD_COUNTS[gens[ret.gen][1].size]
           /\ Len(ret.events) > 0
    /\ ret.op = "generate_incremental_data" => Len(ret.events) = n
    /\ pc \in {"format_loop", "day_loop", "write_incremental", "done"} =>
           Len(bulk_events) = SIZE_RECORD_COUNTS[args.size]
    /\ pc = "done" =>
           LET m == retval[1]
           IN  /\ m.bulk_record_count = SIZE_RECORD_COUNTS[args.size]
               /\ \A f \in DOMAIN m.files :
                      /\ m.files[f].bulk.records = SIZE_RECORD_COUNTS[args.size]
                      /\ \A k \in 1..Len(m.files[f].incremental) :
                             m.files[f].incremental[k].records = DEFAULT_RECORDS_PER_DAY

\* C6 (as stated): generate_bulk_data returns exactly the tier's count of
\* events, never none; generate_incremental_data returns exactly
\* records_per_day events; a returned manifest reports the tier count for
\* the bulk batch and the default per-day count for every incremental file.
C6_LengthsAsStated == BatchLengths(ret.b)

\* C6 (amended): the same, with exactly max(records_per_day, 0) events
\* from generate_incremental_data.
C6_Lengths == BatchLengths(Max(ret.b, 0))

\* a direct call returned a daily batch of the default length
C6_Witness ==
    /\ ret.op = "generate_incremental_data"
    /\ ret.b = DEFAULT_RECORDS_PER_DAY
    /\ Len(ret.events) = DEFAULT_RECORDS_PER_DAY

\* the midnights date can belong to: the day starts d with d <= date < d + 1 day
Midnights(date) ==
    {d * 86400 : d \in {n \in 0..366 : n * 86400 <= date /\ date < (n + 1) * 86400}}

\* C7: every event of generate_bulk_data(start_date, days) is timed within
\* [start_date, start_date + days]; every event of
\* generate_incremental_data(date) within [midnight(date), midnight(date) +
\* 86400 s], whatever the time of day of date.
C7_TimestampWindows ==
    /\ ret.op = "generate_bulk_data" =>
           \A t \in Timestamps(ret.events) : ret.a <= t /\ t <= ret.a + ret.b * 86400
    /\ ret.op = "generate_incremental_data" =>
           \A t \in Timestamps(ret.events) :
               \E m \in Midnights(ret.a) : m <= t /\ t <= m + 86400
    /\ \A t \in Timestamps(bulk_events) : 0 <= t /\ t <= 30 * 86400
    /\ \A i \in 1..Len(trace) :
           trace[i].op = "draw_incremental" =>
               \A t \in Timestamps(trace[i].rows) :
                   /\ (31 + trace[i].tag[3]) * 86400 <= t
                   /\ t <= (31 + trace[i].tag[3] + 1) * 86400

\* a daily batch asked for with a time of day holds an event at the very
\* end of its day
C7_Witness ==
    /\ ret.op = "generate_incremental_data"
    /\ ret.a % 86400 # 0
    /\ \E t \in Timestamps(ret.events) : t = (ret.a - (ret.a % 86400)) + 86400

IncrementalTimestamps ==
    UNION {Timestamps(trace[i].rows) :
               i \in {j \in 1..Len(trace) : trace[j].op = "draw_incremental"}}

\* C8: in a run of generate_benchmark_data every incremental event is timed
\* strictly after every bulk event.
C8_IncrementalAfterBulk ==
    \A ti \in IncrementalTimestamps : \A tb \in Timestamps(bulk_events) : tb < ti

\* a bulk event at the end of the 30 days, and an incremental event at the
\* first second of 2024-02-01
C8_Witness ==
    /\ 30 * 86400 \in Timestamps(bulk_events)
    /\ 31 * 86400 \in IncrementalTimestamps

\* what a caller sees of the seeded streams: time and categorical values
Observable(events) ==
    [k \in 1..Len(events) |->
        <<events[k].timestamp, events[k].page_url, events[k].country,
          events[k].device>>]

\* C9: what a seeded generator produces depends on its own calls only: a
\* call returns the times and categorical values its own seeded state yields,
\* whatever other generators were constructed or used in between.
C9_GeneratorIsolated ==
    (ret.op # "" /\ ret.error = None /\ own[ret.gen] # None) =>
        Observable(ret.events) = Observable(ret.isolated)

LastWrite(path) ==
    LET at == {i \in 1..Len(trace) : IsWrite(trace[i]) /\ trace[i].path = path}
    IN  trace[CHOOSE i \in at : \A j \in at : j <= i]

\* a manifest entry e of format f agrees with the disk
EntryOnDisk(e, f) ==
    /\ e.path \in DOMAIN fs.files
    /\ e.path \in WrittenPaths
    /\ fs.files[e.path].encoding = f
    /\ fs.files[e.path].rows = LastWrite(e.path).rows
    /\ Len(fs.files[e.path].rows) = e.records

\* C10: for any valid formats list, repeated names included, and any
\* incremental_days, the returned manifest has one entry per distinct
\* format, each path it lists is a file the run wrote, holding the last
\* batch written there, whose length the entry reports; with
\* incremental_days <= 0 the incremental lists are empty and only bulk
\* files were written.
C10_ManifestAgreesWithDisk ==
    pc = "done" =>
        LET m == retval[1]
        IN  /\ DOMAIN m.files = Range(formats)
            /\ \A f \in DOMAIN m.files :
                   /\ EntryOnDisk(m.files[f].bulk, f)
                   /\ \A k \in 1..Len(m.files[f].incremental) :
                          EntryOnDisk(m.files[f].incremental[k], f)
            /\ args.incremental_days <= 0 =>
                   /\ \A f \in DOMAIN m.files : m.files[f].incremental = <<>>
                   /\ \A p \in WrittenPaths : p[2] = "bulk"
                   /\ DOMAIN fs.files = WrittenPaths

\* a run that names csv twice, with a day to write, returned
C10_Witness ==
    /\ pc = "done"
    /\ formats = <<"csv", "csv">>
    /\ args.incremental_days >= 1

====
